---- MODULE Spec2Model ----
(***************************************************************************)
(* Model of resource/archive.go: the WAR container loader                  *)
(* (OpenArchiveFrom), the placeholder classifier (isPlaceHolder), the LZ   *)
(* decompressor (uncompressData) and the accessor Archive.Open.            *)
(*                                                                         *)
(* A uint32 is the pair <<hi, lo>> of its 16-bit halves, so that the       *)
(* arithmetic keeps the full 32-bit width of the Go code.  Go slices and   *)
(* arrays are functions over 0..n-1.  The stream fp is a container of sz   *)
(* bytes whose content is chosen when it is read; a Read may deliver fewer *)
(* bytes than requested and any call may fail.                             *)
(***************************************************************************)
EXTENDS Integers, Sequences, FiniteSets, TLC

VARIABLES
    pc,              \* position in OpenArchiveFrom / uncompressData
    LoadUnsupported, \* package variable LoadUnsupported
    fileMap,         \* the external manifest: index -> file name
    sz,              \* parameter sz: size of the container
    fpPos,           \* read position of the stream fp
    shortReads,      \* Read calls answered with (0, nil) so far
    archiveID,       \* local archiveID
    archType,        \* arch.Type
    Files,           \* arch.Files
    numFiles,        \* local numFiles
    fileTable,       \* local fileTable
    tabRead,         \* number of offsets read into fileTable so far
    seeks,           \* number of fp.Seek calls so far
    i,               \* index of the slot loop
    size,            \* local size (after masking)
    isCompressed,    \* local isCompressed
    dataLength,      \* local dataLength (uint32)
    fileName,        \* local fileName
    numRead,         \* uncompressData: numRead
    numWrite,        \* uncompressData: numWrite
    buffer,          \* uncompressData: the 4096 byte dictionary (zero bytes left out)
    out,             \* uncompressData: bytes written to writer
    cmask,           \* uncompressData: cmask
    bit,             \* uncompressData: inner loop counter i
    lzStart,         \* stream position when uncompressData was entered
    ret,             \* result of OpenArchiveFrom: [arch, err]
    opened           \* result of the last Archive.Open: [name, reader, err]

vars == <<pc, LoadUnsupported, fileMap, sz, fpPos, shortReads, archiveID, archType, Files,
          numFiles, fileTable, tabRead, seeks, i, size, isCompressed,
          dataLength, fileName, numRead, numWrite, buffer, out, cmask, bit,
          lzStart, ret, opened>>

loaderLocals == <<archiveID, archType, Files, numFiles, fileTable, tabRead, seeks, i, size,
                  isCompressed, dataLength, fileName>>
lzLocals == <<numRead, numWrite, buffer, out, cmask, bit, lzStart>>
params == <<LoadUnsupported, fileMap, sz>>

----------------------------------------------------------------------------
(* Bounds of the model *)

\* Read calls that the stream may answer with no byte and no error
MaxShortReads == 1
\* largest decoded size announced by an entry header
MaxSize == 2

----------------------------------------------------------------------------
(* uint32 arithmetic on <<hi, lo>> pairs *)

Half == 65536

U32(n) == <<n \div Half, n % Half>>

Sub32(a, b) ==
    LET lo == a[2] - b[2]
        borrow == IF lo < 0 THEN 1 ELSE 0
    IN  <<(a[1] - b[1] - borrow) % Half, lo % Half>>

Zero32 == <<0, 0>>
Max32 == <<65535, 65535>>

\* a uint32 that fits the model's integers, as an integer
Small(a) == a[2]
IsSmall(a) == a[1] = 0

\* n < int(d) for a small integer n and a uint32 d (64-bit int)
LessInt(n, d) == d[1] > 0 \/ n < d[2]

----------------------------------------------------------------------------
(* Constants of the program *)

dosRetail == <<24, 0, 0, 0>>
dosShareware == <<25, 0, 0, 0>>
macRetail == <<0, 0, 0, 26>>
macShareware == <<0, 0, 0, 25>>

bufferSize == 4096

ErrNil == "nil"
ErrIO == "io error"
ErrUnknownVersion == "unknown version"
ErrUnsupportedVersion == "unsupported version"
ErrTableMismatch == "table mapping mismatch"
ErrNotExist == "file does not exist"

----------------------------------------------------------------------------
(* Inputs *)

Arr(s) == [k \in 0..(Len(s) - 1) |-> s[k + 1]]
Len0(a) == Cardinality(DOMAIN a)

EmptyMap == [n \in {} |-> <<>>]

\* manifests: "" marks a slot without a known name
Manifests == {Arr(<<"A", "">>), Arr(<<"", "B">>), Arr(<<"A", "B">>)}

\* container sizes
Sizes == {24, 32}

\* 4-byte values found at the start of a container
ArchiveIDs == {dosRetail, dosShareware, macRetail, macShareware,
               <<0, 0, 0, 24>>, <<26, 0, 0, 0>>, <<24, 0, 0, 1>>}

\* file counts found in a container
Counts == {U32(1), U32(2), U32(3), <<1, 2>>}

\* offsets found in a file table
Offsets == {Zero32, Max32, U32(16), U32(19), U32(20), U32(21)}

\* entry headers: flag byte 0x00, 0x20 and 0x30 over a 24 bit size
Headers == {<<f * 256, s>> : f \in {0, 32}, s \in 0..MaxSize} \cup {<<48 * 256 + 1, 1>>}

\* control bytes, literal bytes and reference codes found in a payload
CtlBytes == {0, 1, 3, 254}
DataBytes == {65}
Codes == {0, 4095, 4096}

Names == {"A", "B", "", "DATA.WAR.0", "DATA.WAR.1", "C"}

----------------------------------------------------------------------------
(* The stream fp *)

Min(a, b) == IF a < b THEN a ELSE b

\* bytes left between the read position and the end of the container
Avail == IF sz > fpPos THEN sz - fpPos ELSE 0

\* position after fp.Seek(int64(offset), 0); the positions from Half on all
\* lie past the end of the container and stand for one another
SeekPos(offset) == IF IsSmall(offset) THEN Small(offset) ELSE Half

\* byte strings of length n
Bytes(n) == [1..n -> DataBytes]

----------------------------------------------------------------------------
(* Pure functions of the program *)

\* isPlaceHolder without the 0xFFFFFFFF sentinel
isPlaceHolderNoMax(tab, offset, k) ==
    IF offset = Zero32
    THEN TRUE
    ELSE IF k = Len0(tab) - 1
         THEN FALSE
         ELSE offset = Sub32(tab[k + 1], U32(1))

isPlaceHolder(tab, offset, k) ==
    IF offset = Zero32 \/ offset = Max32
    THEN TRUE
    ELSE IF k = Len0(tab) - 1
         THEN FALSE
         ELSE offset = Sub32(tab[k + 1], U32(1))

\* the switch without its inner switch: the Mac IDs fall to the default
ClassifyNoMac(id) ==
    IF id = dosRetail THEN [Type |-> "DOS Retail", err |-> ErrNil]
    ELSE IF id = dosShareware THEN [Type |-> "DOS Shareware", err |-> ErrNil]
    ELSE [Type |-> "", err |-> ErrUnknownVersion]

\* switch archiveID: the Type set and the error returned ("nil": load goes on)
Classify(id) ==
    IF id = dosRetail THEN [Type |-> "DOS Retail", err |-> ErrNil]
    ELSE IF id = dosShareware THEN [Type |-> "DOS Shareware", err |-> ErrNil]
    ELSE IF id = macRetail THEN [Type |-> "Mac Retail", err |-> ErrUnsupportedVersion]
    ELSE IF id = macShareware THEN [Type |-> "Mac Shareware", err |-> ErrUnsupportedVersion]
    ELSE [Type |-> "", err |-> ErrUnknownVersion]

\* the comparison on the low 16 bits of numFiles only
CountMismatchLow(n, map) == Small(n) # Len0(map)

\* int(numFiles) != len(fileMap)
CountMismatch(n, map) == ~(IsSmall(n) /\ Small(n) = Len0(map))

\* size>>24 == 0x20
HeaderCompressed(h) == (h[1] \div 256) = 32

\* size &= 0x00FFFFFF
HeaderSize(h) == (h[1] % 256) * Half + h[2]

\* dataLength of slot k
DataLength(tab, k, csz) ==
    Sub32(IF k = Len0(tab) - 1
          THEN Sub32(U32(csz), tab[k])
          ELSE Sub32(tab[k + 1], tab[k]),
          U32(4))

\* fileName of slot k when the slot is loaded
SlotName(map, k) ==
    IF map[k] = "" THEN "DATA.WAR." \o ToString(k) ELSE map[k]

\* the slot is dropped whatever LoadUnsupported says
SlotDroppedAlways(map, k, loadUnsupported) == map[k] = ""

\* the slot is dropped after its header was read
SlotDropped(map, k, loadUnsupported) == map[k] = "" /\ ~loadUnsupported

\* arch.Files[fileName] = data
Store(files, name, data) ==
    [n \in DOMAIN files \cup {name} |-> IF n = name THEN data ELSE files[n]]

\* an Open that takes the file out of the map
OpenRemoves(files, file) ==
    IF file \in DOMAIN files
    THEN [reader |-> <<files[file]>>, err |-> ErrNil,
          Files |-> [n \in DOMAIN files \ {file} |-> files[n]]]
    ELSE [reader |-> <<>>, err |-> ErrNotExist, Files |-> files]

\* Archive.Open: the reader, the error and the map the call leaves behind
Open(files, file) ==
    IF file \in DOMAIN files
    THEN [reader |-> <<files[file]>>, err |-> ErrNil, Files |-> files]
    ELSE [reader |-> <<>>, err |-> ErrNotExist, Files |-> files]

\* the dictionary: buffer[k], zero bytes are not stored
BufAt(buf, k) == IF k \in DOMAIN buf THEN buf[k] ELSE 0

BufSet(buf, k, b) ==
    [x \in (DOMAIN buf \cup {k}) \ (IF b = 0 THEN {k} ELSE {}) |->
        IF x = k THEN b ELSE buf[x]]

\* for m := 0; m <= numBytes+2; m++ { ... }
RECURSIVE CopyLoop(_, _, _, _)
CopyLoop(st, offset, numBytes, m) ==
    IF m <= numBytes + 2
    THEN LET bufByte == BufAt(st.buffer, (offset + m) % bufferSize)
         IN  CopyLoop([buffer |-> BufSet(st.buffer, st.numWrite % bufferSize, bufByte),
                       out |-> Append(st.out, bufByte),
                       numWrite |-> st.numWrite + 1],
                      offset, numBytes, m + 1)
    ELSE st

\* the back-reference branch, for a code read by readShort
BackRef(st, code) ==
    CopyLoop(st, code % bufferSize, code \div bufferSize, 0)

----------------------------------------------------------------------------
(* State *)

\* parameters fileSize and dataSize of the running uncompressData call
fileSize == size
dataSize == dataLength

Init ==
    /\ pc = "start"
    /\ LoadUnsupported \in BOOLEAN
    /\ fileMap \in Manifests
    /\ sz \in Sizes
    /\ fpPos = 0
    /\ shortReads = 0
    /\ archiveID = <<0, 0, 0, 0>>
    /\ archType = ""
    /\ Files = EmptyMap
    /\ numFiles = Zero32
    /\ fileTable = <<>>
    /\ tabRead = 0
    /\ seeks = 0
    /\ i = 0
    /\ size = 0
    /\ isCompressed = FALSE
    /\ dataLength = Zero32
    /\ fileName = ""
    /\ numRead = 0
    /\ numWrite = 0
    /\ buffer = <<>>
    /\ out = <<>>
    /\ cmask = 0
    /\ bit = 0
    /\ lzStart = 0
    /\ ret = [arch |-> FALSE, err |-> ErrNil]
    /\ opened = [name |-> "", reader |-> <<>>, err |-> ErrNil]

\* return a, e from OpenArchiveFrom
Return(a, e) ==
    /\ pc' = "done"
    /\ ret' = [arch |-> a, err |-> e]

\* the variables of one iteration of the slot loop go out of scope
EndOfSlot ==
    /\ size' = 0
    /\ isCompressed' = FALSE
    /\ dataLength' = Zero32
    /\ fileName' = ""
    /\ numRead' = 0
    /\ numWrite' = 0
    /\ buffer' = <<>>
    /\ out' = <<>>
    /\ cmask' = 0
    /\ bit' = 0
    /\ lzStart' = 0

----------------------------------------------------------------------------
(* OpenArchiveFrom *)

\* fp.Read(archiveID[:]) and the switch on archiveID
ReadArchiveID ==
    /\ pc = "start"
    /\ \/ /\ Return(FALSE, ErrIO)
          /\ UNCHANGED <<fpPos, archiveID, archType>>
       \/ \E n \in 0..Min(4, Avail), read \in ArchiveIDs :
            LET c == Classify([k \in 1..4 |-> IF k <= n THEN read[k] ELSE 0])
            IN  /\ fpPos' = fpPos + n
                /\ archiveID' = [k \in 1..4 |-> IF k <= n THEN read[k] ELSE 0]
                /\ archType' = c.Type
                /\ IF c.err = ErrNil
                   THEN pc' = "count" /\ UNCHANGED ret
                   ELSE Return(FALSE, c.err)
    /\ UNCHANGED <<params, shortReads, Files, numFiles, fileTable, tabRead, seeks,
                   i, size, isCompressed, dataLength, fileName, lzLocals, opened>>

\* binary.Read(fp, binary.LittleEndian, &numFiles) and the check against fileMap
ReadNumFiles ==
    /\ pc = "count"
    /\ \/ /\ Return(FALSE, ErrIO)
          /\ UNCHANGED <<fpPos, numFiles, fileTable>>
       \/ /\ Avail >= 4
          /\ \E c \in Counts :
                /\ fpPos' = fpPos + 4
                /\ numFiles' = c
                /\ IF CountMismatch(c, fileMap)
                   THEN Return(FALSE, ErrTableMismatch) /\ UNCHANGED fileTable
                   ELSE /\ fileTable' = [k \in 0..(Small(c) - 1) |-> Zero32]
                        /\ pc' = IF Small(c) = 0 THEN "slot" ELSE "table"
                        /\ UNCHANGED ret
    /\ UNCHANGED <<params, shortReads, archiveID, archType, Files, tabRead, seeks, i, size,
                   isCompressed, dataLength, fileName, lzLocals, opened>>

\* one iteration of: for i := range fileTable { binary.Read(..., &fileTable[i]) }
ReadOffset ==
    /\ pc = "table"
    /\ \/ /\ Return(FALSE, ErrIO)
          /\ UNCHANGED <<fpPos, fileTable, tabRead, i>>
       \/ /\ Avail >= 4
          /\ \E o \in Offsets :
                /\ fpPos' = fpPos + 4
                /\ fileTable' = [fileTable EXCEPT ![i] = o]
                /\ tabRead' = tabRead + 1
                /\ IF i + 1 = Len0(fileTable)
                   THEN pc' = "slot" /\ i' = 0
                   ELSE pc' = "table" /\ i' = i + 1
                /\ UNCHANGED ret
    /\ UNCHANGED <<params, shortReads, archiveID, archType, Files, numFiles, seeks, size,
                   isCompressed, dataLength, fileName, lzLocals, opened>>

\* a placeholder slot: continue
SkipPlaceholder ==
    /\ pc = "slot"
    /\ i < Len0(fileTable)
    /\ isPlaceHolder(fileTable, fileTable[i], i)
    /\ i' = i + 1
    /\ UNCHANGED <<pc, params, fpPos, shortReads, archiveID, archType, Files, numFiles,
                   fileTable, tabRead, seeks, size, isCompressed, dataLength,
                   fileName, lzLocals, ret, opened>>

\* a present slot: fp.Seek, the header word, dataLength and the file name
ReadEntry ==
    /\ pc = "slot"
    /\ i < Len0(fileTable)
    /\ ~isPlaceHolder(fileTable, fileTable[i], i)
    /\ seeks' = seeks + 1
    /\ \/ \* fp.Seek fails
          /\ Return(FALSE, ErrIO)
          /\ UNCHANGED <<fpPos, i, size, isCompressed, dataLength, fileName, lzLocals>>
       \/ \* binary.Read of size fails
          /\ Return(FALSE, ErrIO)
          /\ fpPos' = SeekPos(fileTable[i])
          /\ UNCHANGED <<i, size, isCompressed, dataLength, fileName, lzLocals>>
       \/ /\ sz - SeekPos(fileTable[i]) >= 4
          /\ fpPos' = SeekPos(fileTable[i]) + 4
          /\ \E h \in Headers :
                IF SlotDropped(fileMap, i, LoadUnsupported)
                THEN /\ i' = i + 1
                     /\ UNCHANGED <<pc, ret, size, isCompressed, dataLength,
                                    fileName, lzLocals>>
                ELSE /\ size' = HeaderSize(h)
                     /\ isCompressed' = HeaderCompressed(h)
                     /\ dataLength' = DataLength(fileTable, i, sz)
                     /\ fileName' = SlotName(fileMap, i)
                     /\ pc' = IF HeaderCompressed(h) THEN "lz_outer" ELSE "raw"
                     /\ lzStart' = fpPos'
                     /\ UNCHANGED <<i, ret, numRead, numWrite, buffer, out, cmask, bit>>
    /\ UNCHANGED <<params, shortReads, archiveID, archType, Files, numFiles, fileTable,
                   tabRead, opened>>

\* data = make([]byte, size); fp.Read(data); arch.Files[fileName] = data
ReadRaw ==
    /\ pc = "raw"
    /\ \E num \in 0..Min(size, Avail), err \in {ErrNil, ErrIO} :
          /\ fpPos' = fpPos + num
          /\ IF num # size \/ err # ErrNil
             THEN /\ Return(FALSE, err)
                  /\ UNCHANGED <<Files, i, size, isCompressed, dataLength,
                                 fileName, lzLocals>>
             ELSE /\ \E data \in Bytes(size) : Files' = Store(Files, fileName, data)
                  /\ i' = i + 1
                  /\ pc' = "slot"
                  /\ EndOfSlot
                  /\ UNCHANGED ret
    /\ UNCHANGED <<params, shortReads, archiveID, archType, numFiles, fileTable, tabRead,
                   seeks, opened>>

\* for i == len(fileTable): return arch, nil
LoadDone ==
    /\ pc = "slot"
    /\ i = Len0(fileTable)
    /\ Return(TRUE, ErrNil)
    /\ UNCHANGED <<params, fpPos, shortReads, loaderLocals, lzLocals, opened>>

----------------------------------------------------------------------------
(* uncompressData, called from the slot loop of OpenArchiveFrom *)

\* readByte delivers b: a full read of a byte of the set bs, or a Read that
\* returned no byte and no error, for which readByte returns 0, nil
ReadByteOk(b, bs) ==
    \/ /\ Avail >= 1
       /\ b \in bs
       /\ fpPos' = fpPos + 1
       /\ UNCHANGED shortReads
    \/ /\ shortReads < MaxShortReads
       /\ b = 0
       /\ shortReads' = shortReads + 1
       /\ UNCHANGED fpPos

\* for numRead < dataSize { cmask, err := readByte(reader); numRead++ ...
LZControl ==
    /\ pc = "lz_outer"
    /\ LessInt(numRead, dataSize)
    /\ numRead' = numRead + 1
    /\ \/ /\ Return(FALSE, ErrIO)
          /\ UNCHANGED <<fpPos, shortReads, cmask, bit>>
       \/ \E b \in CtlBytes :
            /\ ReadByteOk(b, CtlBytes)
            /\ cmask' = b
            /\ bit' = 0
            /\ pc' = "lz_bit"
            /\ UNCHANGED ret
    /\ UNCHANGED <<params, loaderLocals, numWrite, buffer, out, lzStart, opened>>

\* bit 1: a literal byte
LZLiteral ==
    /\ pc = "lz_bit"
    /\ bit < 8 /\ numWrite # fileSize
    /\ cmask % 2 = 1
    /\ numRead' = numRead + 1
    /\ \/ /\ Return(FALSE, ErrIO)
          /\ UNCHANGED <<fpPos, shortReads, numWrite, buffer, out, cmask, bit>>
       \/ \E bufByte \in DataBytes :
            /\ ReadByteOk(bufByte, DataBytes)
            /\ buffer' = BufSet(buffer, numWrite % bufferSize, bufByte)
            /\ out' = Append(out, bufByte)
            /\ numWrite' = numWrite + 1
            /\ cmask' = cmask \div 2
            /\ bit' = bit + 1
            /\ UNCHANGED <<pc, ret>>
    /\ UNCHANGED <<params, loaderLocals, lzStart, opened>>

\* bit 0: a back-reference
LZBackRef ==
    /\ pc = "lz_bit"
    /\ bit < 8 /\ numWrite # fileSize
    /\ cmask % 2 = 0
    /\ numRead' = numRead + 2
    /\ \/ /\ Return(FALSE, ErrIO)
          /\ UNCHANGED <<fpPos, numWrite, buffer, out, cmask, bit>>
       \/ /\ Avail >= 2
          /\ fpPos' = fpPos + 2
          /\ \E offset \in Codes :
                LET st == BackRef([buffer |-> buffer, out |-> out,
                                   numWrite |-> numWrite], offset)
                IN  /\ buffer' = st.buffer
                    /\ out' = st.out
                    /\ numWrite' = st.numWrite
          /\ cmask' = cmask \div 2
          /\ bit' = bit + 1
          /\ UNCHANGED <<pc, ret>>
    /\ UNCHANGED <<params, loaderLocals, shortReads, lzStart, opened>>

\* the loop over the bits of cmask ends
LZBitsDone ==
    /\ pc = "lz_bit"
    /\ ~(bit < 8 /\ numWrite # fileSize)
    /\ pc' = "lz_outer"
    /\ UNCHANGED <<params, fpPos, shortReads, loaderLocals, lzLocals, ret, opened>>

\* the outer loop ends: writer.Flush(); return backingBuffer.Bytes(), nil;
\* then arch.Files[fileName] = data in OpenArchiveFrom
LZReturn ==
    /\ pc = "lz_outer"
    /\ ~LessInt(numRead, dataSize)
    /\ Files' = Store(Files, fileName, out)
    /\ i' = i + 1
    /\ pc' = "slot"
    /\ EndOfSlot
    /\ UNCHANGED <<params, fpPos, shortReads, archiveID, archType, numFiles, fileTable,
                   tabRead, seeks, ret, opened>>

----------------------------------------------------------------------------
(* Archive.Open on the Archive a successful load returned *)

OpenFile ==
    /\ pc = "done"
    /\ ret.arch
    /\ \E file \in Names :
         LET r == Open(Files, file)
         IN  /\ opened' = [name |-> file, reader |-> r.reader, err |-> r.err]
             /\ Files' = r.Files
    /\ UNCHANGED <<pc, params, fpPos, shortReads, archiveID, archType, numFiles, fileTable,
                   tabRead, seeks, i, size, isCompressed, dataLength, fileName,
                   lzLocals, ret>>

----------------------------------------------------------------------------

Next ==
    \/ ReadArchiveID
    \/ ReadNumFiles
    \/ ReadOffset
    \/ SkipPlaceholder
    \/ ReadEntry
    \/ ReadRaw
    \/ LZControl
    \/ LZLiteral
    \/ LZBackRef
    \/ LZBitsDone
    \/ LZReturn
    \/ LoadDone
    \/ OpenFile

Spec == Init /\ [][Next]_vars

----------------------------------------------------------------------------
(* Properties *)

InLZ == pc \in {"lz_outer", "lz_bit"}

\* the slot loop stands before slot i
AtSlot == pc = "slot" /\ i < Len0(fileTable)

\* n <= int(d) for a small integer n and a uint32 d
LeqInt(n, d) == d[1] > 0 \/ n <= d[2]

\* a <= b for two uint32
Leq32(a, b) == a[1] < b[1] \/ (a[1] = b[1] /\ a[2] <= b[2])

\* C1: OpenArchiveFrom returns either an Archive and a nil error, or no
\* Archive and a non-nil error.
C1_OneOfTwoOutcomes ==
    pc = "done" =>
        \/ ret.arch /\ ret.err = ErrNil
        \/ ~ret.arch /\ ret.err # ErrNil

\* C2: when uncompressData returns a nil error, the slice it returns has
\* exactly fileSize bytes.
C2_ExactLength ==
    (pc = "lz_outer" /\ ~LessInt(numRead, dataSize)) => Len(out) = fileSize

\* C9: in uncompressData numWrite never exceeds fileSize.
C9_WriteWithinTarget ==
    InLZ => numWrite <= fileSize

\* C10: uncompressData never reads more than dataSize bytes from the source,
\* and reads no byte once numWrite equals fileSize.
C10_ReadWithinBudget ==
    /\ [](InLZ => LeqInt(fpPos - lzStart, dataSize))
    /\ [][(InLZ /\ numWrite = fileSize) => fpPos' = fpPos]_vars

\* C6: the budget handed to the decompressor for a present slot is the
\* distance to the next offset (to the end of the container for the last
\* slot) less 4, a non-negative number no greater than what the container
\* holds after the slot's header.
C6_PayloadLength ==
    InLZ =>
        LET next == IF i = Len0(fileTable) - 1 THEN U32(sz) ELSE fileTable[i + 1]
        IN  /\ Leq32(U32(Small(fileTable[i]) + 4), next)
            /\ IsSmall(dataLength)
            /\ Small(dataLength) <= sz - (Small(fileTable[i]) + 4)

\* the first Read of the load returned without error
IDRead ==
    /\ pc # "start"
    /\ ~(pc = "done" /\ ret.err = ErrIO /\ numFiles = Zero32 /\ archiveID = <<0, 0, 0, 0>>)

\* the file count was never read
CountNotRead == numFiles = Zero32 /\ tabRead = 0 /\ seeks = 0 /\ fpPos <= 4

\* C3: 18 00 00 00 and 19 00 00 00 let the load go on as "DOS Retail" and
\* "DOS Shareware"; 00 00 00 1A and 00 00 00 19 fail with
\* ErrUnsupportedVersion; any other value fails with the unknown-version
\* error; a failed load returns no Archive and never reads the file count.
C3_Classification ==
    IDRead =>
        /\ archiveID = <<24, 0, 0, 0>> =>
              /\ archType = "DOS Retail"
              /\ ret.err \notin {ErrUnknownVersion, ErrUnsupportedVersion}
        /\ archiveID = <<25, 0, 0, 0>> =>
              /\ archType = "DOS Shareware"
              /\ ret.err \notin {ErrUnknownVersion, ErrUnsupportedVersion}
        /\ archiveID \in {<<0, 0, 0, 26>>, <<0, 0, 0, 25>>} =>
              /\ pc = "done"
              /\ ret = [arch |-> FALSE, err |-> ErrUnsupportedVersion]
              /\ CountNotRead
        /\ archiveID \notin {<<24, 0, 0, 0>>, <<25, 0, 0, 0>>,
                             <<0, 0, 0, 26>>, <<0, 0, 0, 25>>} =>
              /\ pc = "done"
              /\ ret = [arch |-> FALSE, err |-> ErrUnknownVersion]
              /\ ErrUnknownVersion # ErrUnsupportedVersion
              /\ CountNotRead

C3_Witness ==
    /\ pc = "done"
    /\ archiveID = <<0, 0, 0, 25>>
    /\ ret.err = ErrUnsupportedVersion
    /\ fpPos = 4

\* C4: a file count that differs from the length of fileMap fails with the
\* table-mapping-mismatch error before any offset is read or any seek is
\* made, and returns no Archive; with an equal count, the offsets are read in
\* index order and all of them before any entry is decoded.
C4_TableRead ==
    /\ (numFiles # Zero32 /\ ~(IsSmall(numFiles) /\ Small(numFiles) = Len0(fileMap))) =>
          /\ pc = "done"
          /\ ret = [arch |-> FALSE, err |-> ErrTableMismatch]
          /\ tabRead = 0
          /\ seeks = 0
          /\ Files = EmptyMap
    /\ (pc = "done" /\ ret.err = ErrTableMismatch) =>
          ~(IsSmall(numFiles) /\ Small(numFiles) = Len0(fileMap))
    /\ pc = "table" => i = tabRead /\ tabRead < Len0(fileMap) /\ seeks = 0
    /\ (pc \in {"slot", "raw", "lz_outer", "lz_bit"} \/ seeks > 0 \/ Files # EmptyMap) =>
          /\ tabRead = Len0(fileMap)
          /\ Small(numFiles) = Len0(fileMap)
          /\ Len0(fileTable) = Len0(fileMap)

C4_Witness ==
    /\ pc = "done"
    /\ numFiles = <<0, 3>>
    /\ ret.err = ErrTableMismatch
    /\ tabRead = 0

\* the placeholder rule as stated for table T and index k
PlaceholderRule(T, k) ==
    \/ T[k] = Zero32
    \/ T[k] = Max32
    \/ k < Len0(T) - 1 /\ T[k] = Sub32(T[k + 1], <<0, 1>>)

\* C5: slot i is a placeholder iff its offset is 0, or 0xFFFFFFFF, or one
\* less (mod 2^32) than the offset of slot i+1 when there is a slot i+1; a
\* placeholder is skipped without a seek or a read, adds nothing to Files and
\* does not fail the load; any other slot is seeked to.
C5_Placeholder ==
    [][AtSlot =>
          IF PlaceholderRule(fileTable, i)
          THEN /\ pc' = "slot"
               /\ i' = i + 1
               /\ fpPos' = fpPos
               /\ seeks' = seeks
               /\ shortReads' = shortReads
               /\ Files' = Files
               /\ ret' = ret
          ELSE seeks' = seeks + 1]_vars

\* a slot skipped by the next-minus-one rule, and a last slot whose offset
\* would match a sentinel only
C5_Witness ==
    /\ pc = "slot"
    /\ i = 1
    /\ fileTable = (0 :> <<0, 19>> @@ 1 :> <<0, 20>>)
    /\ seeks = 0
    /\ fpPos = 16

\* the key under which slot k is stored
KeyOf(k) == IF fileMap[k] = "" THEN "DATA.WAR." \o ToString(k) ELSE fileMap[k]

\* slot k is present and without a name while LoadUnsupported is false
Unnamed(k) == ~PlaceholderRule(fileTable, k) /\ fileMap[k] = "" /\ ~LoadUnsupported

\* slot k is present and loaded
Loaded(k) == ~PlaceholderRule(fileTable, k) /\ (fileMap[k] # "" \/ LoadUnsupported)

\* a loaded slot is decoded (or fails the load) and its bytes are stored
\* under its key; a successful load holds exactly the keys of the loaded slots
C7_LoadedPart ==
    /\ [](pc = "done" /\ ret.arch =>
            DOMAIN Files = {KeyOf(k) : k \in {x \in DOMAIN fileTable : Loaded(x)}})
    /\ [][(AtSlot /\ Loaded(i)) => pc' \in {"raw", "lz_outer", "done"}]_vars
    /\ [][(pc \in {"raw", "lz_outer"} /\ pc' = "slot") =>
            /\ Loaded(i)
            /\ DOMAIN Files' = DOMAIN Files \cup {KeyOf(i)}
            /\ Len(Files'[KeyOf(i)]) = (IF pc = "raw" THEN size ELSE Len(out))
            /\ pc = "lz_outer" => Files'[KeyOf(i)] = out
            /\ \A n \in DOMAIN Files \ {KeyOf(i)} : Files'[n] = Files[n]]_vars

\* C7 as stated: once the loader has seeked to an unnamed slot, with
\* LoadUnsupported = false, the slot is skipped and the load cannot fail on
\* it, even on an unreadable header; loaded slots are stored under their key.
C7_UnnamedNeverFails ==
    /\ C7_LoadedPart
    /\ [][(AtSlot /\ Unnamed(i) /\ fpPos' >= Small(fileTable[i])) =>
            /\ pc' = "slot"
            /\ i' = i + 1
            /\ Files' = Files
            /\ ret' = ret]_vars

\* C7 amended: an unnamed slot, with LoadUnsupported = false, is seeked to and
\* its header is read, which may fail the load; otherwise it is skipped with
\* its payload unread and nothing stored.
C7_UnnamedHeaderOnly ==
    /\ C7_LoadedPart
    /\ [][(AtSlot /\ Unnamed(i)) =>
            /\ seeks' = seeks + 1
            /\ shortReads' = shortReads
            /\ Files' = Files
            /\ \/ /\ pc' = "slot"
                  /\ i' = i + 1
                  /\ ret' = ret
                  /\ fpPos' = Small(fileTable[i]) + 4
               \/ /\ pc' = "done"
                  /\ ret' = [arch |-> FALSE, err |-> ErrIO]
                  /\ fpPos' \in {fpPos, Small(fileTable[i])}]_vars

\* an unnamed slot was skipped after its header, a named one was stored
C7_Witness ==
    /\ pc = "done"
    /\ ret.arch
    /\ ~LoadUnsupported
    /\ fileMap = (0 :> "" @@ 1 :> "B")
    /\ fileTable = (0 :> <<0, 16>> @@ 1 :> <<0, 20>>)
    /\ DOMAIN Files = {"B"}
    /\ seeks = 2

\* C8: on a loaded Archive, Open(name) returns a reader over the bytes stored
\* under name and a nil error when name is a key of Files, no reader and the
\* not-exist error otherwise, and leaves Files as it was.
C8_Open ==
    [][(pc = "done" /\ ret.arch) =>
          /\ Files' = Files
          /\ IF opened'.name \in DOMAIN Files
             THEN /\ opened'.reader = <<Files[opened'.name]>>
                  /\ opened'.err = ErrNil
             ELSE /\ opened'.reader = <<>>
                  /\ opened'.err = ErrNotExist]_vars

C8_Witness ==
    /\ pc = "done"
    /\ opened.name = "A"
    /\ opened.err = ErrNil
    /\ opened.reader = <<Files["A"]>>
    /\ Len(Files["A"]) = 2
    /\ "B" \notin DOMAIN Files

====
